---- MODULE Spec2Model ----
(***************************************************************************)
(* A model of the Ontime text-to-speech demo client (src/app.js): the      *)
(* socket lifecycle, the field-catalog fetch, the monitored-field          *)
(* configuration with its rendered controls, the runtime-data scan with    *)
(* its previous-value cache, and the single-slot speech gate.              *)
(*                                                                         *)
(* Strings whose characters the code inspects (raw field values, the       *)
(* threshold input, the utterance text) are sequences of one-character     *)
(* strings.  Keys and identifiers that the code only compares or           *)
(* concatenates are TLA+ strings.                                          *)
(***************************************************************************)
EXTENDS Integers, Sequences, FiniteSets, TLC

(***************************************************************************)
(* Bounds of the model.                                                    *)
(***************************************************************************)
\* pending 100 ms speak timers kept at once, and utterances handed to the
\* engine that have not reported yet, where the gate is studied
MaxTimers == 2
MaxUtterances == 2
\* the same two where the scan is studied
MaxScanTimers == 1
MaxScanUtterances == 1
\* the largest duration the threshold property ranges over
MaxSeconds == 12

(***************************************************************************)
(* Characters and numbers.                                                 *)
(***************************************************************************)
DigitChars == <<"0", "1", "2", "3", "4", "5", "6", "7", "8", "9">>

IsDigit(c) == \E i \in 1..10 : DigitChars[i] = c

DigitVal(c) == (CHOOSE i \in 1..10 : DigitChars[i] = c) - 1

IsSpace(c) == c = " "

AllDigits(s) == \A i \in 1..Len(s) : IsDigit(s[i])

\* parseInt(d, 10) of a string of digits
RECURSIVE DigitsToNat(_)
DigitsToNat(s) ==
    IF Len(s) = 0 THEN 0
    ELSE 10 * DigitsToNat(SubSeq(s, 1, Len(s) - 1)) + DigitVal(s[Len(s)])

\* `${n}` of a non-negative integer
RECURSIVE NatToString(_)
NatToString(n) ==
    IF n < 10 THEN <<DigitChars[n + 1]>>
    ELSE Append(NatToString(n \div 10), DigitChars[(n % 10) + 1])

\* String.prototype.trim
RECURSIVE TrimLeft(_)
TrimLeft(s) ==
    IF Len(s) > 0 /\ IsSpace(s[1]) THEN TrimLeft(Tail(s)) ELSE s

RECURSIVE TrimRight(_)
TrimRight(s) ==
    IF Len(s) > 0 /\ IsSpace(s[Len(s)])
    THEN TrimRight(SubSeq(s, 1, Len(s) - 1)) ELSE s

Trim(s) == TrimRight(TrimLeft(s))

(***************************************************************************)
(* JSON values a custom field can carry: a string, null or a number.       *)
(***************************************************************************)
Str(s) == [t |-> "string", s |-> s]

JsNull == [t |-> "null", s |-> <<>>]

JsNumber(digits) == [t |-> "number", s |-> digits]

\* !fieldValue || typeof fieldValue !== 'string'
NoValidValue(v) == v.t # "string" \/ Len(v.s) = 0

(***************************************************************************)
(* parseTimeToSeconds: -1 stands for null.                                 *)
(***************************************************************************)
NoSeconds == -1

\* ^(\d{1,2}):(\d{2}):(\d{2})$
MatchesHMS(s) ==
    /\ Len(s) \in {7, 8}
    /\ AllDigits(SubSeq(s, 1, Len(s) - 6))
    /\ s[Len(s) - 5] = ":"
    /\ AllDigits(SubSeq(s, Len(s) - 4, Len(s) - 3))
    /\ s[Len(s) - 2] = ":"
    /\ AllDigits(SubSeq(s, Len(s) - 1, Len(s)))

\* the second pattern with \d{1,3} for the minutes
MatchesMSLoose(s) ==
    /\ Len(s) \in {4, 5, 6}
    /\ AllDigits(SubSeq(s, 1, Len(s) - 3))
    /\ s[Len(s) - 2] = ":"
    /\ AllDigits(SubSeq(s, Len(s) - 1, Len(s)))

\* ^(\d{1,2}):(\d{2})$
MatchesMS(s) ==
    /\ Len(s) \in {4, 5}
    /\ AllDigits(SubSeq(s, 1, Len(s) - 3))
    /\ s[Len(s) - 2] = ":"
    /\ AllDigits(SubSeq(s, Len(s) - 1, Len(s)))

\* parseTimeToSeconds refusing minutes and seconds above 59
parseTimeToSecondsClock(v) ==
    IF NoValidValue(v) THEN NoSeconds
    ELSE LET s == Trim(v.s) IN
         IF MatchesHMS(s)
         THEN IF DigitsToNat(SubSeq(s, Len(s) - 4, Len(s) - 3)) > 59
                 \/ DigitsToNat(SubSeq(s, Len(s) - 1, Len(s))) > 59
              THEN NoSeconds
              ELSE DigitsToNat(SubSeq(s, 1, Len(s) - 6)) * 3600
                   + DigitsToNat(SubSeq(s, Len(s) - 4, Len(s) - 3)) * 60
                   + DigitsToNat(SubSeq(s, Len(s) - 1, Len(s)))
         ELSE IF MatchesMS(s)
         THEN IF DigitsToNat(SubSeq(s, 1, Len(s) - 3)) > 59
                 \/ DigitsToNat(SubSeq(s, Len(s) - 1, Len(s))) > 59
              THEN NoSeconds
              ELSE DigitsToNat(SubSeq(s, 1, Len(s) - 3)) * 60
                   + DigitsToNat(SubSeq(s, Len(s) - 1, Len(s)))
         ELSE NoSeconds

parseTimeToSeconds(v) ==
    IF NoValidValue(v) THEN NoSeconds
    ELSE LET s == Trim(v.s) IN
         IF MatchesHMS(s)
         THEN DigitsToNat(SubSeq(s, 1, Len(s) - 6)) * 3600
              + DigitsToNat(SubSeq(s, Len(s) - 4, Len(s) - 3)) * 60
              + DigitsToNat(SubSeq(s, Len(s) - 1, Len(s)))
         ELSE IF MatchesMS(s)
         THEN DigitsToNat(SubSeq(s, 1, Len(s) - 3)) * 60
              + DigitsToNat(SubSeq(s, Len(s) - 1, Len(s)))
         ELSE NoSeconds

(***************************************************************************)
(* parseInt(value, 10) || 10 of the threshold input: optional sign, then   *)
(* the leading digits; NaN (no digit) and 0 both fall back to 10.          *)
(***************************************************************************)
RECURSIVE LeadingDigits(_)
LeadingDigits(s) ==
    IF Len(s) > 0 /\ IsDigit(s[1])
    THEN <<s[1]>> \o LeadingDigits(Tail(s)) ELSE <<>>

DefaultThreshold == 10

ParseThreshold(s) ==
    LET t == TrimLeft(s)
        neg == Len(t) > 0 /\ t[1] = "-"
        body == IF Len(t) > 0 /\ t[1] \in {"-", "+"} THEN Tail(t) ELSE t
        d == LeadingDigits(body)
        n == IF neg THEN 0 - DigitsToNat(d) ELSE DigitsToNat(d)
    IN IF Len(d) = 0 \/ n = 0 THEN DefaultThreshold ELSE n

(***************************************************************************)
(* The data the environment can supply.                                    *)
(***************************************************************************)
\* field keys a catalog can define, with the type the catalog gives them
Catalog2 == [k \in {"f1", "f2"} |-> "text"]

CatalogMixed == [k \in {"f1", "n1"} |-> IF k = "f1" THEN "text" ELSE "image"]

CatalogEmpty == [k \in {} |-> "text"]

Catalogs == {CatalogEmpty, Catalog2, CatalogMixed}

AllKeys == {"f1", "f2", "n1"}

\* the language options of a row, and the voices of the platform
Languages == {"en-US", "es-ES"}

LangCode(l) == IF l = "en-US" THEN "en" ELSE "es"

Voices == {[voiceURI |-> "voice-en", lang |-> "en"],
           [voiceURI |-> "voice-es", lang |-> "es"]}

\* the two configuration literals of the source
AddedConfig ==
    [enabled |-> TRUE, threshold |-> DefaultThreshold, voice |-> "",
     language |-> "en-US"]

FallbackConfig ==
    [enabled |-> FALSE, threshold |-> DefaultThreshold, voice |-> "",
     language |-> "en-US"]

NoMapping == [k \in {} |-> AddedConfig]

\* the record under 'ontime-tts-config': absent, a JSON object, or text that
\* JSON.parse rejects
NoSaved == [t |-> "none", v |-> NoMapping]

SavedJson(m) == [t |-> "json", v |-> m]

SavedCorrupt == [t |-> "corrupt", v |-> NoMapping]

SavedAtStart ==
    {NoSaved, SavedCorrupt,
     SavedJson([k \in {"f1"} |-> [AddedConfig EXCEPT !.threshold = 5]]),
     SavedJson([k \in {"f1", "f2"} |->
                  IF k = "f1" THEN AddedConfig
                  ELSE [FallbackConfig EXCEPT !.language = "es-ES"]])}

(***************************************************************************)
(* State.                                                                  *)
(***************************************************************************)
VARIABLES
    \* connection manager
    sockets,          \* the sockets not yet closed, oldest first
    reconnectTimers,  \* pending setTimeout(connectSocket, 2000)
    connStatus,       \* the connection-status badge
    wsCtorThrows,     \* whether new WebSocket(socketUrl) throws
    \* field catalog and rendered controls
    fetchState,
    customFields,
    dom,
    \* monitoring
    monitoredFields,
    storage,
    localData,
    previousValues,
    \* speech
    speechAvailable,
    ttsEnabled,
    isSpeaking,
    timers,           \* pending 100 ms timers of speakValue, in firing order
    utterances,       \* utterances handed to the engine, not yet reported
    \* history of the last handler run
    log,
    cfgChanged,       \* a setting changed since the last runtime-data scan
    \* history of the speech triggers
    late,             \* per pending timer: another timer was pending when
                      \* it was set
    dropped,          \* the triggers that found the gate held, each kept
                      \* while no delivery shows another value for its key
    \* a call of parseTimeToSeconds on its own
    timeStr,
    parsed

connVars == <<sockets, reconnectTimers, connStatus, wsCtorThrows>>

catalogVars == <<fetchState, customFields>>

configVars == <<monitoredFields, storage>>

runtimeVars == <<localData, previousValues>>

speechVars == <<speechAvailable, ttsEnabled, isSpeaking, timers, utterances>>

histVars == <<late, dropped>>

callVars == <<timeStr, parsed>>

vars == <<sockets, reconnectTimers, connStatus, wsCtorThrows, fetchState,
          customFields, dom, monitoredFields, storage, localData,
          previousValues, speechAvailable, ttsEnabled, isSpeaking, timers,
          utterances, log, cfgChanged, late, dropped, timeStr, parsed>>

\* the log of a handler that is not a socket message
NoTimer == [late |-> FALSE, outcome |-> "none"]

NoLog == [tag |-> "", calls |-> <<>>, timer |-> NoTimer]

\* parsed before parseTimeToSeconds has returned
NotCalled == -2

(***************************************************************************)
(* connectSocket, as run by the page-load handler and by the reconnect     *)
(* timer: the sockets and the badge it leaves.                             *)
(***************************************************************************)
connectSocket(socks, status) ==
    IF wsCtorThrows
    THEN [sockets |-> socks, connStatus |-> "disconnected"]
    ELSE [sockets |-> Append(socks, "connecting"), connStatus |-> status]

(***************************************************************************)
(* The state when the DOMContentLoaded handler has returned: the fetch is  *)
(* in flight, connectSocket has run once, the listeners are installed.     *)
(***************************************************************************)
Init ==
    /\ wsCtorThrows \in BOOLEAN
    /\ speechAvailable \in BOOLEAN
    /\ ttsEnabled \in BOOLEAN
    /\ storage \in SavedAtStart
    /\ sockets = connectSocket(<<>>, "initial").sockets
    /\ connStatus = connectSocket(<<>>, "initial").connStatus
    /\ reconnectTimers = 0
    /\ fetchState = "pending"
    /\ customFields = CatalogEmpty
    /\ dom = [container |-> "initial", rows |-> {}, options |-> {},
              populated |-> FALSE, addDisabled |-> FALSE,
              monitoring |-> [message |-> FALSE, items |-> <<>>]]
    /\ monitoredFields = NoMapping
    /\ localData = [k \in {} |-> 0]
    /\ previousValues = [k \in {} |-> JsNull]
    /\ isSpeaking = FALSE
    /\ timers = <<>>
    /\ utterances = <<>>
    /\ log = NoLog
    /\ cfgChanged = TRUE
    /\ late = <<>>
    /\ dropped = {}
    /\ timeStr = JsNull
    /\ parsed = NotCalled

(***************************************************************************)
(* Runtime data.  An event is null or carries an id ("" when it has none)  *)
(* and a custom mapping fieldKey -> JSON value.  localData and a payload   *)
(* map "eventNow" / "eventNext" to events; a key they lack is undefined.   *)
(***************************************************************************)
NullEvent == [null |-> TRUE, id |-> "", custom |-> [k \in {} |-> JsNull]]

Event(id, custom) == [null |-> FALSE, id |-> id, custom |-> custom]

\* localData = { ...localData, ...payload }
Merge(data, payload) ==
    [k \in DOMAIN data \cup DOMAIN payload |->
        IF k \in DOMAIN payload THEN payload[k] ELSE data[k]]

\* eventNow && eventNow.custom
HasCustom(data, slot) == slot \in DOMAIN data /\ ~data[slot].null

EventTypes == {"current", "next"}

Slot(eventType) == IF eventType = "current" THEN "eventNow" ELSE "eventNext"

\* event?.id || eventType
EventId(data, eventType) ==
    IF data[Slot(eventType)].id # "" THEN data[Slot(eventType)].id
    ELSE eventType

\* `${eventId}-${fieldKey}`
UniqueKey(eventId, fieldKey) == eventId \o "-" \o fieldKey

\* the raw values the server sends
T0010 == Str(<<"0", "0", ":", "1", "0">>)

T0011 == Str(<<"0", "0", ":", "1", "1">>)

T15 == Str(<<"1", ":", "5">>)

T000010 == Str(<<" ", "0", ":", "0", "0", ":", "1", "0">>)

AllValues == {T0010, T0011, T15, T000010, Str(<<>>), JsNull, JsNumber(<<"5">>)}

\* what JavaScript takes for true in a test
Truthy(v) ==
    \/ v.t = "string" /\ Len(v.s) > 0
    \/ v.t = "number" /\ v.s # <<"0">>

\* the '-' shown for a field neither event has a value for
Dash == Str(<<"-">>)

\* updateMonitoringDisplay, with monitoredFields = mf and localData = data:
\* "No fields being monitored" when no field is enabled, else one item for
\* each enabled field of the catalog, with the raw value shown, the
\* threshold shown and the class 'active'
updateMonitoringDisplay(d, mf, cf, data) ==
    LET enabledFields == {k \in DOMAIN mf : mf[k].enabled}
        Has(slot, k) == /\ HasCustom(data, slot)
                        /\ k \in DOMAIN data[slot].custom
                        /\ Truthy(data[slot].custom[k])
        Item(k) ==
            IF Has("eventNow", k)
            THEN LET currentValue == data["eventNow"].custom[k]
                     seconds == parseTimeToSeconds(currentValue)
                 IN [value |-> currentValue,
                     threshold |-> mf[k].threshold,
                     active |-> seconds # NoSeconds
                                  /\ seconds <= mf[k].threshold]
            ELSE IF Has("eventNext", k)
            THEN [value |-> data["eventNext"].custom[k],
                  threshold |-> mf[k].threshold, active |-> FALSE]
            ELSE [value |-> Dash, threshold |-> mf[k].threshold,
                  active |-> FALSE]
    IN IF enabledFields = {}
       THEN [d EXCEPT !.monitoring = [message |-> TRUE,
                                      items |-> <<>>]]
       ELSE [d EXCEPT !.monitoring =
                [message |-> FALSE,
                 items |-> [k \in enabledFields \cap DOMAIN cf |-> Item(k)]]]

(***************************************************************************)
(* Field catalog and configuration controls.                               *)
(***************************************************************************)
TextKeys(cf) == {k \in DOMAIN cf : cf[k] = "text"}

\* populateAddFieldDropdown, with monitoredFields = mf
populateAddFieldDropdown(d, cf, mf) ==
    LET textFields == TextKeys(cf) \ DOMAIN mf
    IN [d EXCEPT !.options = textFields, !.populated = TRUE,
                 !.addDisabled = (textFields = {})]

\* renderFieldsConfiguration, with monitoredFields = mf
renderFieldsConfiguration(d, cf, mf) ==
    LET textFields == TextKeys(cf)
        fieldsToShow == textFields \cap DOMAIN mf
    IN IF textFields = {}
       THEN [d EXCEPT !.container = "no-text-fields", !.rows = {}]
       ELSE IF fieldsToShow = {}
       THEN [d EXCEPT !.container = "none-configured", !.rows = {}]
       ELSE populateAddFieldDropdown(
                [d EXCEPT !.container = "rows", !.rows = fieldsToShow], cf, mf)

\* saveConfiguration writing only the enabled fields
saveConfigurationEnabledOnly(mf) ==
    SavedJson([k \in {x \in DOMAIN mf : mf[x].enabled} |-> mf[k]])

\* saveConfiguration: the whole mapping, as JSON.parse gives it back
saveConfiguration(mf) == SavedJson(mf)

\* monitoredFields.get(fieldKey) || { enabled: false, threshold: 10, ... }
ConfigOf(k) ==
    IF k \in DOMAIN monitoredFields THEN monitoredFields[k] ELSE FallbackConfig

\* monitoredFields.set(fieldKey, config)
MapSet(m, k, c) == [x \in DOMAIN m \cup {k} |-> IF x = k THEN c ELSE m[x]]

\* map.delete(key)
MapDelete(m, k) == [x \in DOMAIN m \ {k} |-> m[x]]

\* loadCustomFields, from the point where the fetch settles.  outcome is
\* "ok" (response.ok, body = catalog), "status" (non-2xx) or "network".
FetchSettles(outcome, catalog) ==
    /\ fetchState = "pending"
    /\ fetchState' = outcome
    /\ IF outcome = "ok"
       THEN /\ customFields' = catalog
            /\ dom' = IF DOMAIN catalog = {}
                      THEN populateAddFieldDropdown(
                               [dom EXCEPT !.container = "no-custom-fields",
                                           !.rows = {}],
                               catalog, monitoredFields)
                      ELSE populateAddFieldDropdown(
                               renderFieldsConfiguration(dom, catalog,
                                                         monitoredFields),
                               catalog, monitoredFields)
       ELSE /\ customFields' = customFields
            /\ dom' = [dom EXCEPT !.container =
                         IF outcome = "status" THEN "error-status"
                         ELSE "error", !.rows = {}]
    /\ log' = NoLog
    /\ UNCHANGED <<connVars, configVars, runtimeVars, speechVars, cfgChanged,
                   histVars, callVars>>

\* click on "Add Field" with option k selected ("" is the placeholder)
AddField(k) ==
    /\ k \in dom.options \cup {""}
    /\ k = "" => ~dom.addDisabled
    /\ IF k # "" /\ k \in DOMAIN customFields
       THEN LET mf == MapSet(monitoredFields, k, AddedConfig) IN
            /\ monitoredFields' = mf
            /\ storage' = saveConfiguration(mf)
            /\ dom' = populateAddFieldDropdown(
                          updateMonitoringDisplay(
                              renderFieldsConfiguration(dom, customFields, mf),
                              mf, customFields, localData),
                          customFields, mf)
       ELSE UNCHANGED <<monitoredFields, storage, dom>>
    /\ log' = NoLog
    /\ cfgChanged' = TRUE
    /\ UNCHANGED <<connVars, catalogVars, runtimeVars, speechVars, histVars,
                   callVars>>

\* the Remove handler deleting the field's composite cache keys
RemoveFieldClearsCache(k) ==
    /\ k \in dom.rows
    /\ LET mf == MapDelete(monitoredFields, k) IN
       /\ monitoredFields' = mf
       /\ storage' = saveConfiguration(mf)
       /\ dom' = updateMonitoringDisplay(
                     renderFieldsConfiguration(dom, customFields, mf),
                     mf, customFields, localData)
    /\ previousValues' =
          [x \in {y \in DOMAIN previousValues :
                    \A eid \in {"e1", "e2", "current", "next"} :
                       y # eid \o "-" \o k} |-> previousValues[x]]
    /\ log' = NoLog
    /\ cfgChanged' = TRUE
    /\ UNCHANGED <<connVars, catalogVars, localData, speechVars, histVars,
                   callVars>>

\* click on the Remove button of row k
RemoveField(k) ==
    /\ k \in dom.rows
    /\ LET mf == MapDelete(monitoredFields, k) IN
       /\ monitoredFields' = mf
       /\ storage' = saveConfiguration(mf)
       /\ dom' = updateMonitoringDisplay(
                     renderFieldsConfiguration(dom, customFields, mf),
                     mf, customFields, localData)
    /\ previousValues' = MapDelete(previousValues, k)
    /\ log' = NoLog
    /\ cfgChanged' = TRUE
    /\ UNCHANGED <<connVars, catalogVars, localData, speechVars, histVars,
                   callVars>>

\* the shared part of the four per-row change handlers; display tells
\* whether the handler ends with updateMonitoringDisplay
SetConfig(k, c, display) ==
    /\ k \in dom.rows
    /\ monitoredFields' = MapSet(monitoredFields, k, c)
    /\ storage' = saveConfiguration(MapSet(monitoredFields, k, c))
    /\ dom' = IF display
              THEN updateMonitoringDisplay(dom, MapSet(monitoredFields, k, c),
                                           customFields, localData)
              ELSE dom
    /\ log' = NoLog
    /\ cfgChanged' = TRUE
    /\ UNCHANGED <<connVars, catalogVars, runtimeVars, speechVars,
                   histVars, callVars>>

SetEnabled(k, checked) ==
    SetConfig(k, [ConfigOf(k) EXCEPT !.enabled = checked], TRUE)

SetThreshold(k, value) ==
    SetConfig(k, [ConfigOf(k) EXCEPT !.threshold = ParseThreshold(value)],
              FALSE)

SetLanguage(k, value) ==
    SetConfig(k, [ConfigOf(k) EXCEPT !.language = value, !.voice = ""], FALSE)

\* the options of a row's voice select: Default and the voices of the
\* row's language
VoiceOptions(k) ==
    {""} \cup {v.voiceURI : v \in {w \in Voices :
                 speechAvailable /\ w.lang = LangCode(ConfigOf(k).language)}}

SetVoice(k, value) ==
    /\ value \in VoiceOptions(k)
    /\ SetConfig(k, [ConfigOf(k) EXCEPT !.voice = value], FALSE)

\* loadSavedConfiguration without its customFields[key] test
loadSavedConfigurationUnfiltered ==
    /\ storage.t = "json"
    /\ LET mf == [k \in DOMAIN monitoredFields \cup DOMAIN storage.v |->
                    IF k \in DOMAIN storage.v THEN storage.v[k]
                    ELSE monitoredFields[k]]
       IN /\ monitoredFields' = mf
          /\ dom' = updateMonitoringDisplay(
                     renderFieldsConfiguration(dom, customFields, mf),
                     mf, customFields, localData)
    /\ log' = NoLog
    /\ cfgChanged' = TRUE
    /\ UNCHANGED <<connVars, catalogVars, storage, runtimeVars, speechVars,
                   histVars, callVars>>

\* loadSavedConfiguration.  No handler of the page calls it.  The test
\* customFields[key] is read as "key is a key of the catalog": every
\* catalog entry is an object.
loadSavedConfiguration ==
    /\ storage.t = "json"
    /\ LET kept == {k \in DOMAIN storage.v : k \in DOMAIN customFields}
           mf == [k \in DOMAIN monitoredFields \cup kept |->
                    IF k \in kept THEN storage.v[k] ELSE monitoredFields[k]]
       IN /\ monitoredFields' = mf
          /\ dom' = updateMonitoringDisplay(
                     renderFieldsConfiguration(dom, customFields, mf),
                     mf, customFields, localData)
    /\ log' = NoLog
    /\ cfgChanged' = TRUE
    /\ UNCHANGED <<connVars, catalogVars, storage, runtimeVars, speechVars,
                   histVars, callVars>>

(***************************************************************************)
(* Speech.  A scan threads st = [prev, timers, utts, calls] through the    *)
(* entries it visits: the cache, the pending timers, the engine's          *)
(* utterances and the record of the speakValue calls made.                 *)
(***************************************************************************)
\* speechSynthesis.speaking || speechSynthesis.pending
EngineBusy(utts) == \E i \in 1..Len(utts) : ~utts[i].cancelled

\* speechSynthesis.cancel(): every utterance leaves the queue; its end or
\* error event is delivered later
EngineCancel(utts) == [i \in 1..Len(utts) |-> [utts[i] EXCEPT !.cancelled = TRUE]]

Call(key, fieldKey, seconds, outcome) ==
    [key |-> key, fieldKey |-> fieldKey, seconds |-> seconds,
     outcome |-> outcome]

\* speakValue without its "already speaking" return
speakValueUngated(key, fieldKey, seconds, st) ==
    IF ~speechAvailable
    THEN [st EXCEPT !.calls =
            Append(@, Call(key, fieldKey, seconds, "unavailable"))]
    ELSE [st EXCEPT
            !.utts = IF EngineBusy(@) THEN EngineCancel(@) ELSE @,
            !.timers = Append(@, [fieldKey |-> fieldKey, seconds |-> seconds]),
            !.calls = Append(@, Call(key, fieldKey, seconds,
                                      IF isSpeaking THEN "busy" ELSE "scheduled"))]

\* speakValue up to the setTimeout; key identifies the caller's cache entry
speakValue(key, fieldKey, seconds, st) ==
    IF ~speechAvailable
    THEN [st EXCEPT !.calls =
            Append(@, Call(key, fieldKey, seconds, "unavailable"))]
    ELSE IF isSpeaking
    THEN [st EXCEPT !.calls = Append(@, Call(key, fieldKey, seconds, "busy"))]
    ELSE [st EXCEPT
            !.utts = IF EngineBusy(@) THEN EngineCancel(@) ELSE @,
            !.timers = Append(@, [fieldKey |-> fieldKey, seconds |-> seconds]),
            !.calls = Append(@, Call(key, fieldKey, seconds, "scheduled"))]

\* the threshold test made exclusive
AboveThresholdExclusive(seconds, threshold) == seconds >= threshold

\* seconds > config.threshold
AboveThreshold(seconds, threshold) == seconds > threshold

\* the forEach body without its "value unchanged" return
CheckEntryUncached(fieldKey, fieldValue, eventId, st) ==
    IF fieldKey \notin DOMAIN monitoredFields THEN st
    ELSE IF ~monitoredFields[fieldKey].enabled THEN st
    ELSE LET uniqueKey == UniqueKey(eventId, fieldKey)
             seconds == parseTimeToSeconds(fieldValue)
             st1 == [st EXCEPT !.prev = MapSet(@, uniqueKey, fieldValue)]
         IN IF NoValidValue(fieldValue) THEN st1
            ELSE IF seconds = NoSeconds THEN st1
            ELSE IF AboveThreshold(seconds, monitoredFields[fieldKey].threshold)
            THEN st1
            ELSE speakValue(uniqueKey, fieldKey, seconds, st1)

\* the forEach body that caches a value only when it triggers speech
CheckEntryCacheOnTrigger(fieldKey, fieldValue, eventId, st) ==
    IF fieldKey \notin DOMAIN monitoredFields THEN st
    ELSE IF ~monitoredFields[fieldKey].enabled THEN st
    ELSE LET uniqueKey == UniqueKey(eventId, fieldKey)
             seconds == parseTimeToSeconds(fieldValue)
             st1 == [st EXCEPT !.prev = MapSet(@, uniqueKey, fieldValue)]
         IN IF uniqueKey \in DOMAIN st.prev /\ st.prev[uniqueKey] = fieldValue
            THEN st
            ELSE IF NoValidValue(fieldValue) THEN st
            ELSE IF seconds = NoSeconds THEN st
            ELSE IF AboveThreshold(seconds, monitoredFields[fieldKey].threshold)
            THEN st
            ELSE speakValue(uniqueKey, fieldKey, seconds, st1)

\* the forEach body that leaves the cache alone when the gate is held
CheckEntryRetryLater(fieldKey, fieldValue, eventId, st) ==
    IF fieldKey \notin DOMAIN monitoredFields THEN st
    ELSE IF ~monitoredFields[fieldKey].enabled THEN st
    ELSE LET uniqueKey == UniqueKey(eventId, fieldKey)
             seconds == parseTimeToSeconds(fieldValue)
             st1 == [st EXCEPT !.prev = MapSet(@, uniqueKey, fieldValue)]
         IN IF uniqueKey \in DOMAIN st.prev /\ st.prev[uniqueKey] = fieldValue
            THEN st
            ELSE IF NoValidValue(fieldValue) THEN st1
            ELSE IF seconds = NoSeconds THEN st1
            ELSE IF AboveThreshold(seconds, monitoredFields[fieldKey].threshold)
            THEN st1
            ELSE speakValue(uniqueKey, fieldKey, seconds,
                            IF isSpeaking THEN st ELSE st1)

\* the body of the forEach of checkEventFields for one entry
CheckEntry(fieldKey, fieldValue, eventId, st) ==
    IF fieldKey \notin DOMAIN monitoredFields THEN st
    ELSE IF ~monitoredFields[fieldKey].enabled THEN st
    ELSE LET uniqueKey == UniqueKey(eventId, fieldKey)
             seconds == parseTimeToSeconds(fieldValue)
             st1 == [st EXCEPT !.prev = MapSet(@, uniqueKey, fieldValue)]
         IN IF uniqueKey \in DOMAIN st.prev /\ st.prev[uniqueKey] = fieldValue
            THEN st
            ELSE IF NoValidValue(fieldValue) THEN st1
            ELSE IF seconds = NoSeconds THEN st1
            ELSE IF AboveThreshold(seconds, monitoredFields[fieldKey].threshold)
            THEN st1
            ELSE speakValue(uniqueKey, fieldKey, seconds, st1)

\* checkEventFields: order lists the keys in the order Object.entries
\* yields them
RECURSIVE CheckEntries(_, _, _, _)
CheckEntries(order, customValues, eventId, st) ==
    IF Len(order) = 0 THEN st
    ELSE CheckEntries(Tail(order), customValues, eventId,
             IF Head(order) \in DOMAIN customValues
             THEN CheckEntry(Head(order), customValues[Head(order)], eventId, st)
             ELSE st)

checkEventFields(data, eventType, order, st) ==
    CheckEntries(order, data[Slot(eventType)].custom,
                 EventId(data, eventType), st)

checkMonitoredFields(data, order, st) ==
    LET afterNow == IF HasCustom(data, "eventNow")
                    THEN checkEventFields(data, "current", order, st) ELSE st
    IN IF HasCustom(data, "eventNext")
       THEN checkEventFields(data, "next", order, afterNow) ELSE afterNow

\* the raw values data holds under cache key k, in either slot
ValuesFor(data, k) ==
    {data[Slot(x[1])].custom[x[2]] :
        x \in {y \in EventTypes \X AllKeys :
                 /\ HasCustom(data, Slot(y[1]))
                 /\ y[2] \in DOMAIN data[Slot(y[1])].custom
                 /\ UniqueKey(EventId(data, y[1]), y[2]) = k}}

\* the triggers a scan of data lost to a held gate, each with the one raw
\* value data holds for its cache key
DroppedBy(data, calls) ==
    UNION {{[key |-> calls[i].key, value |-> v] :
               v \in {w \in AllValues : ValuesFor(data, calls[i].key) = {w}}} :
           i \in {j \in 1..Len(calls) : calls[j].outcome = "busy"}}

\* handleOntimePayload; tag is the tag of the message, for the log.  The
\* updateMonitoringDisplay that ends checkMonitoredFields is the dom' here.
handleOntimePayload(payload, order, tag) ==
    LET data == Merge(localData, payload)
        st0 == [prev |-> previousValues, timers |-> timers,
                utts |-> utterances, calls |-> <<>>]
        st == IF ttsEnabled THEN checkMonitoredFields(data, order, st0) ELSE st0
    IN /\ localData' = data
       /\ previousValues' = st.prev
       /\ timers' = st.timers
       /\ utterances' = st.utts
       /\ dom' = IF ttsEnabled
                 THEN updateMonitoringDisplay(dom, monitoredFields,
                                              customFields, data)
                 ELSE dom
       /\ log' = [tag |-> tag, calls |-> st.calls, timer |-> NoTimer]
       /\ cfgChanged' = FALSE
       /\ late' = [j \in 1..Len(st.timers) |->
                     IF j <= Len(timers) THEN late[j] ELSE j > 1]
       /\ dropped' = {d \in dropped : ValuesFor(data, d.key) \subseteq {d.value}}
                        \cup DroppedBy(data, st.calls)

\* websocket.onmessage without its test of the tag
OnMessageAnyTag(i, tag, payload, order) ==
    /\ i \in 1..Len(sockets)
    /\ sockets[i] = "open"
    /\ handleOntimePayload(payload, order, tag)
    /\ UNCHANGED <<connVars, catalogVars, configVars, speechAvailable,
                   ttsEnabled, isSpeaking, callVars>>

\* websocket.onmessage of socket i
OnMessage(i, tag, payload, order) ==
    /\ i \in 1..Len(sockets)
    /\ sockets[i] = "open"
    /\ IF tag = "runtime-data"
       THEN handleOntimePayload(payload, order, tag)
       ELSE /\ log' = [tag |-> tag, calls |-> <<>>, timer |-> NoTimer]
            /\ UNCHANGED <<dom, runtimeVars, timers, utterances, cfgChanged,
                           histVars>>
    /\ UNCHANGED <<connVars, catalogVars, configVars, speechAvailable,
                   ttsEnabled, isSpeaking, callVars>>

\* the timer callback without its second test of isSpeaking
SpeakTimerNoRecheck(throws) ==
    /\ timers # <<>>
    /\ timers' = Tail(timers)
    /\ late' = Tail(late)
    /\ IF throws
       THEN isSpeaking' = FALSE /\ UNCHANGED utterances
       ELSE /\ isSpeaking' = TRUE
            /\ utterances' = Append(utterances,
                   [text |-> NatToString(Head(timers).seconds),
                    cancelled |-> FALSE])
    /\ log' = [NoLog EXCEPT !.timer =
                  [late |-> Head(late),
                   outcome |-> IF throws THEN "threw" ELSE "spoken"]]
    /\ UNCHANGED <<connVars, catalogVars, dom, configVars, runtimeVars,
                   speechAvailable, ttsEnabled, cfgChanged, dropped, callVars>>

\* the timer callback without the isSpeaking = false of its catch
SpeakTimerThrowHolds(throws) ==
    /\ timers # <<>>
    /\ timers' = Tail(timers)
    /\ late' = Tail(late)
    /\ IF isSpeaking
       THEN /\ ~throws
            /\ UNCHANGED <<isSpeaking, utterances>>
       ELSE IF throws
       THEN isSpeaking' = TRUE /\ UNCHANGED utterances
       ELSE /\ isSpeaking' = TRUE
            /\ utterances' = Append(utterances,
                   [text |-> NatToString(Head(timers).seconds),
                    cancelled |-> FALSE])
    /\ log' = [NoLog EXCEPT !.timer =
                  [late |-> Head(late),
                   outcome |-> IF isSpeaking THEN "dropped"
                               ELSE IF throws THEN "threw" ELSE "spoken"]]
    /\ UNCHANGED <<connVars, catalogVars, dom, configVars, runtimeVars,
                   speechAvailable, ttsEnabled, cfgChanged, dropped, callVars>>

\* the 100 ms timer callback of speakValue; throws: speechSynthesis.speak
\* raises
SpeakTimer(throws) ==
    /\ timers # <<>>
    /\ timers' = Tail(timers)
    /\ late' = Tail(late)
    /\ IF isSpeaking
       THEN /\ ~throws
            /\ UNCHANGED <<isSpeaking, utterances>>
       ELSE IF throws
       THEN UNCHANGED <<isSpeaking, utterances>>
       ELSE /\ isSpeaking' = TRUE
            /\ utterances' = Append(utterances,
                   [text |-> NatToString(Head(timers).seconds),
                    cancelled |-> FALSE])
    /\ log' = [NoLog EXCEPT !.timer =
                  [late |-> Head(late),
                   outcome |-> IF isSpeaking THEN "dropped"
                               ELSE IF throws THEN "threw" ELSE "spoken"]]
    /\ UNCHANGED <<connVars, catalogVars, dom, configVars, runtimeVars,
                   speechAvailable, ttsEnabled, cfgChanged, dropped, callVars>>

\* utterance.onend / utterance.onerror of utterance i
UtteranceReports(i) ==
    /\ i \in 1..Len(utterances)
    /\ utterances' = [j \in 1..(Len(utterances) - 1) |->
                        IF j < i THEN utterances[j] ELSE utterances[j + 1]]
    /\ isSpeaking' = FALSE
    /\ log' = NoLog
    /\ UNCHANGED <<connVars, catalogVars, dom, configVars, runtimeVars,
                   speechAvailable, ttsEnabled, timers, cfgChanged, histVars,
                   callVars>>

\* the toggle handler without its isSpeaking = false
ToggleTtsKeepsGate(checked) ==
    /\ checked # ttsEnabled
    /\ ttsEnabled' = checked
    /\ IF ~checked
       THEN utterances' = IF speechAvailable THEN EngineCancel(utterances)
                          ELSE utterances
       ELSE UNCHANGED utterances
    /\ log' = NoLog
    /\ cfgChanged' = TRUE
    /\ UNCHANGED <<connVars, catalogVars, dom, configVars, runtimeVars,
                   speechAvailable, isSpeaking, timers, histVars, callVars>>

\* change of the tts-enabled checkbox
ToggleTts(checked) ==
    /\ checked # ttsEnabled
    /\ ttsEnabled' = checked
    /\ IF ~checked
       THEN /\ utterances' = IF speechAvailable THEN EngineCancel(utterances)
                             ELSE utterances
            /\ isSpeaking' = FALSE
       ELSE UNCHANGED <<utterances, isSpeaking>>
    /\ log' = NoLog
    /\ cfgChanged' = TRUE
    /\ UNCHANGED <<connVars, catalogVars, dom, configVars, runtimeVars,
                   speechAvailable, timers, histVars, callVars>>

(***************************************************************************)
(* Connection manager.                                                     *)
(***************************************************************************)
SetSocket(i, state) == [sockets EXCEPT ![i] = state]

DropSocket(i) ==
    [j \in 1..(Len(sockets) - 1) |->
        IF j < i THEN sockets[j] ELSE sockets[j + 1]]

\* websocket.onopen
SocketOpens(i) ==
    /\ i \in 1..Len(sockets)
    /\ sockets[i] = "connecting"
    /\ sockets' = SetSocket(i, "open")
    /\ connStatus' = "connected"
    /\ log' = NoLog
    /\ UNCHANGED <<reconnectTimers, wsCtorThrows, catalogVars, dom, configVars,
                   runtimeVars, speechVars, cfgChanged, histVars, callVars>>

\* an onerror that schedules a reconnect of its own
SocketErrorsReconnects(i) ==
    /\ i \in 1..Len(sockets)
    /\ sockets[i] \in {"connecting", "open"}
    /\ sockets' = SetSocket(i, "failed")
    /\ connStatus' = "disconnected"
    /\ reconnectTimers' = reconnectTimers + 1
    /\ log' = NoLog
    /\ UNCHANGED <<wsCtorThrows, catalogVars, dom, configVars, runtimeVars,
                   speechVars, cfgChanged, histVars, callVars>>

\* websocket.onerror; the browser fires close after it
SocketErrors(i) ==
    /\ i \in 1..Len(sockets)
    /\ sockets[i] \in {"connecting", "open"}
    /\ sockets' = SetSocket(i, "failed")
    /\ connStatus' = "disconnected"
    /\ log' = NoLog
    /\ UNCHANGED <<reconnectTimers, wsCtorThrows, catalogVars, dom, configVars,
                   runtimeVars, speechVars, cfgChanged, histVars, callVars>>

\* websocket.onclose
SocketCloses(i) ==
    /\ i \in 1..Len(sockets)
    /\ sockets[i] \in {"open", "failed"}
    /\ sockets' = DropSocket(i)
    /\ connStatus' = "disconnected"
    /\ reconnectTimers' = reconnectTimers + 1
    /\ log' = NoLog
    /\ UNCHANGED <<wsCtorThrows, catalogVars, dom, configVars, runtimeVars,
                   speechVars, cfgChanged, histVars, callVars>>

\* the 2000 ms timer set by onclose fires
ReconnectTimer ==
    /\ reconnectTimers > 0
    /\ reconnectTimers' = reconnectTimers - 1
    /\ sockets' = connectSocket(sockets, connStatus).sockets
    /\ connStatus' = connectSocket(sockets, connStatus).connStatus
    /\ log' = NoLog
    /\ UNCHANGED <<wsCtorThrows, catalogVars, dom, configVars, runtimeVars,
                   speechVars, cfgChanged, histVars, callVars>>

(***************************************************************************)
(* What the server and the user can send.                                  *)
(***************************************************************************)
Tags == {"runtime-data", "ping"}

\* the orders in which a custom mapping lists its keys
Orders == {<<"f1", "f2", "n1">>, <<"f2", "f1", "n1">>}

Customs(keys, values) ==
    UNION {[ks -> values] : ks \in SUBSET keys}

Events(ids, keys, values) ==
    {NullEvent} \cup {Event(id, c) : id \in ids, c \in Customs(keys, values)}

\* payloads that carry any subset of eventNow / eventNext
Payloads(nowEvents, nextEvents) ==
    {[k \in {} |-> NullEvent]}
    \cup {[k \in {"eventNow"} |-> e] : e \in nowEvents}
    \cup {[k \in {"eventNext"} |-> e] : e \in nextEvents}
    \cup {[k \in {"eventNow", "eventNext"} |->
              IF k = "eventNow" THEN pr[1] ELSE pr[2]] :
          pr \in nowEvents \X nextEvents}

ThresholdInputs == {<<"0">>, <<"5">>, <<"1", "1">>, <<>>, <<"-", "3">>,
                    <<"2", ".", "5">>}

AllPayloads ==
    Payloads(Events({"", "e1", "e2"}, AllKeys, AllValues),
             Events({"", "e1", "e2"}, AllKeys, AllValues))

(***************************************************************************)
(* The page: every handler, with everything the environment can supply.    *)
(* Bounded keeps the pending timers and the unreported utterances finite.  *)
(***************************************************************************)
Bounded(maxTimers, maxUtterances) ==
    Len(timers') <= maxTimers /\ Len(utterances') <= maxUtterances

Next ==
    \/ \E o \in {"ok", "status", "network"}, c \in Catalogs : FetchSettles(o, c)
    \/ \E k \in AllKeys \cup {""} : AddField(k)
    \/ \E k \in AllKeys : RemoveField(k)
    \/ \E k \in AllKeys, b \in BOOLEAN : SetEnabled(k, b)
    \/ \E k \in AllKeys, v \in ThresholdInputs : SetThreshold(k, v)
    \/ \E k \in AllKeys, l \in Languages : SetLanguage(k, l)
    \/ \E k \in AllKeys, v \in {""} \cup {w.voiceURI : w \in Voices} :
          SetVoice(k, v)
    \/ \E i \in 1..Len(sockets), t \in Tags, p \in AllPayloads, o \in Orders :
          OnMessage(i, t, p, o) /\ Bounded(MaxTimers, MaxUtterances)
    \/ \E throws \in BOOLEAN : SpeakTimer(throws) /\ Bounded(MaxTimers, MaxUtterances)
    \/ \E i \in 1..Len(utterances) : UtteranceReports(i)
    \/ \E b \in BOOLEAN : ToggleTts(b)
    \/ \E i \in 1..Len(sockets) : SocketOpens(i)
    \/ \E i \in 1..Len(sockets) : SocketErrors(i)
    \/ \E i \in 1..Len(sockets) : SocketCloses(i)
    \/ ReconnectTimer

Spec == Init /\ [][Next]_vars

(***************************************************************************)
(* The speech gate on its own: one catalog, two monitored text fields, an  *)
(* open socket, and runtime data that moves both fields across the default *)
(* threshold.  The socket lifecycle, the saved record and the failed fetch *)
(* touch none of the variables of this path.                               *)
(***************************************************************************)
NowOnly(e) == [k \in {"eventNow"} |-> e]

F1(v) == [k \in {"f1"} |-> v]

F12(v, w) == [k \in {"f1", "f2"} |-> IF k = "f1" THEN v ELSE w]

GatePayloads ==
    {NowOnly(Event("e1", F1(T0010))), NowOnly(Event("e1", F1(T0011))),
     NowOnly(Event("e1", F12(T0010, T0010))),
     NowOnly(Event("e1", F12(T0011, T0011)))}

GateInit ==
    /\ Init
    /\ ~wsCtorThrows
    /\ storage = NoSaved
    /\ speechAvailable
    /\ ttsEnabled

GateNext ==
    \/ FetchSettles("ok", Catalog2)
    \/ \E k \in {"f1", "f2"} : AddField(k)
    \/ \E i \in 1..Len(sockets), p \in GatePayloads, o \in Orders :
          OnMessage(i, "runtime-data", p, o)
             /\ Bounded(MaxTimers, MaxUtterances)
    \/ \E throws \in BOOLEAN : SpeakTimer(throws) /\ Bounded(MaxTimers, MaxUtterances)
    \/ \E i \in 1..Len(utterances) : UtteranceReports(i)
    \/ \E b \in BOOLEAN : ToggleTts(b)
    \/ \E i \in 1..Len(sockets) : SocketOpens(i)

GateSpec == GateInit /\ [][GateNext]_vars

\* the same with a speech engine that reports end or error for every
\* utterance it was handed
GateFairSpec ==
    GateSpec /\ WF_vars(\E i \in 1..Len(utterances) : UtteranceReports(i))

(***************************************************************************)
(* The scan on its own: one monitored field whose configuration the user   *)
(* edits, and runtime data that repeats values, changes them around the    *)
(* threshold, drops the event id and puts one event id in both slots.      *)
(***************************************************************************)
ScanNowEvents ==
    {NullEvent, Event("e1", F1(T0010)), Event("e1", F1(T0011)),
     Event("", F1(T0010)), Event("e1", F1(JsNull)),
     Event("e1", [k \in {"f1", "n1"} |-> IF k = "f1" THEN T15 ELSE T0010])}

ScanNextEvents == {Event("e1", F1(T0011))}

ScanPayloads == Payloads(ScanNowEvents, ScanNextEvents)

ScanInit ==
    /\ Init
    /\ ~wsCtorThrows
    /\ storage = NoSaved

ScanNext ==
    \/ FetchSettles("ok", CatalogMixed)
    \/ AddField("f1")
    \/ RemoveField("f1")
    \/ \E b \in BOOLEAN : SetEnabled("f1", b)
    \/ SetThreshold("f1", <<"1", "1">>)
    \/ \E i \in 1..Len(sockets), p \in ScanPayloads :
          OnMessage(i, "runtime-data", p, <<"f1", "f2", "n1">>)
             /\ Bounded(MaxScanTimers, MaxScanUtterances)
    \/ \E throws \in BOOLEAN :
          SpeakTimer(throws) /\ Bounded(MaxScanTimers, MaxScanUtterances)
    \/ \E i \in 1..Len(utterances) : UtteranceReports(i)
    \/ \E b \in BOOLEAN : ToggleTts(b)
    \/ \E i \in 1..Len(sockets) : SocketOpens(i)

ScanSpec == ScanInit /\ [][ScanNext]_vars

(***************************************************************************)
(* The connection manager on its own: the socket lifecycle, with messages  *)
(* of both tags arriving on an open socket while one field is monitored.   *)
(***************************************************************************)
ConnPayloads ==
    {NowOnly(Event("e1", F1(T0010))), NowOnly(Event("e1", F1(T0011))),
     NowOnly(NullEvent)}

ConnInit ==
    /\ Init
    /\ storage = NoSaved
    /\ speechAvailable
    /\ ttsEnabled

ConnNext ==
    \/ FetchSettles("ok", CatalogMixed)
    \/ AddField("f1")
    \/ \E i \in 1..Len(sockets), t \in Tags, p \in ConnPayloads :
          OnMessage(i, t, p, <<"f1", "f2", "n1">>)
             /\ Bounded(MaxScanTimers, MaxScanUtterances)
    \/ \E throws \in BOOLEAN :
          SpeakTimer(throws) /\ Bounded(MaxScanTimers, MaxScanUtterances)
    \/ \E i \in 1..Len(utterances) : UtteranceReports(i)
    \/ \E b \in BOOLEAN : ToggleTts(b)
    \/ \E i \in 1..Len(sockets) : SocketOpens(i)
    \/ \E i \in 1..Len(sockets) : SocketErrors(i)
    \/ \E i \in 1..Len(sockets) : SocketCloses(i)
    \/ ReconnectTimer

ConnSpec == ConnInit /\ [][ConnNext]_vars

(***************************************************************************)
(* The catalog and the configuration controls on their own: every outcome  *)
(* of the fetch, every saved record, every edit of a row.                  *)
(***************************************************************************)
ConfigInit ==
    /\ Init
    /\ ~wsCtorThrows
    /\ ttsEnabled

ConfigNext ==
    \/ \E o \in {"ok", "status", "network"}, c \in Catalogs : FetchSettles(o, c)
    \/ \E k \in AllKeys \cup {""} : AddField(k)
    \/ \E k \in AllKeys : RemoveField(k)
    \/ \E k \in AllKeys, b \in BOOLEAN : SetEnabled(k, b)
    \/ \E k \in AllKeys, v \in ThresholdInputs : SetThreshold(k, v)
    \/ \E k \in AllKeys, l \in Languages : SetLanguage(k, l)
    \/ \E k \in AllKeys, v \in {""} \cup {w.voiceURI : w \in Voices} :
          SetVoice(k, v)

ConfigSpec == ConfigInit /\ [][ConfigNext]_vars

\* the same with loadSavedConfiguration run at any moment, as a page that
\* called it would
ConfigLoadNext == ConfigNext \/ loadSavedConfiguration

ConfigLoadSpec == ConfigInit /\ [][ConfigLoadNext]_vars

(***************************************************************************)
(* parseTimeToSeconds on its own, called with strings built from digit     *)
(* groups of every length from 0 to 3 joined by colons, the same padded    *)
(* with blanks, strings with other separators and characters, and values   *)
(* that are not strings.                                                   *)
(***************************************************************************)
DigitGroups ==
    {<<>>, <<"0">>, <<"1">>, <<"5">>, <<"0", "7">>, <<"9", "9">>,
     <<"1", "2", "3">>}

Colon == <<":">>

TwoGroups == {a \o Colon \o b : a \in DigitGroups, b \in DigitGroups}

ThreeGroups ==
    {a \o Colon \o b \o Colon \o c :
        a \in DigitGroups, b \in DigitGroups, c \in DigitGroups}

OtherStrings ==
    {<<>>, <<" ">>, <<"0", "1", "3", "0">>, <<"1", "-", "0", "5">>,
     <<"1", ":", "0", "5", "x">>, <<"a", ":", "0", "5">>,
     <<"1", " ", ":", "0", "5">>, <<"1", ":", "0", "5", ":", "0", "0", ":", "0", "0">>,
     <<" ", "1", ":", "0", "5", " ">>, <<" ", "0", "1", ":", "0", "0", ":", "9", "9">>,
     <<"1", "2", ":", "3", "4", ":", "5", "6", " ", " ">>}

ParseInputs ==
    {Str(s) : s \in TwoGroups \cup ThreeGroups \cup OtherStrings}
    \cup {JsNull, JsNumber(<<"5">>), JsNumber(<<"0">>)}

\* a call parseTimeToSeconds(v)
ParseTime(v) ==
    /\ timeStr' = v
    /\ parsed' = parseTimeToSeconds(v)
    /\ UNCHANGED <<connVars, catalogVars, dom, configVars, runtimeVars,
                   speechVars, log, cfgChanged, histVars>>

ParseInit ==
    /\ Init
    /\ ~wsCtorThrows
    /\ storage = NoSaved
    /\ speechAvailable
    /\ ttsEnabled

ParseNext == \E v \in ParseInputs : ParseTime(v)

ParseSpec == ParseInit /\ [][ParseNext]_vars

(***************************************************************************)
(* Properties of the speech gate.                                          *)
(***************************************************************************)
\* a step that ran handleOntimePayload: only that handler leaves the
\* runtime-data tag in the log
Delivered == log'.tag = "runtime-data"

CallsOf(l, fieldKey) ==
    {i \in 1..Len(l.calls) : l.calls[i].fieldKey = fieldKey}

\* C1: in every reachable state at most one utterance handed to the speech
\* engine by speakValue has not yet reported end or error.
C1_AtMostOneUtteranceInFlight == Len(utterances) <= 1

\* C2: a speakValue call made while the gate is held is dropped: the
\* delivery that makes it creates no utterance, schedules no timer, cancels
\* nothing and leaves isSpeaking as it was.
C2_CallWhileGateHeldIsDropped ==
    [][(isSpeaking /\ Delivered /\ log'.calls # <<>>) =>
          /\ timers' = timers
          /\ utterances' = utterances
          /\ isSpeaking' = isSpeaking]_vars

\* a delivery has just called speakValue for both fields while an utterance
\* held the gate
C2_Witness ==
    /\ isSpeaking
    /\ utterances # <<>>
    /\ ~utterances[1].cancelled
    /\ CallsOf(log, "f1") # {}
    /\ CallsOf(log, "f2") # {}

(***************************************************************************)
(* Properties of the scan.                                                 *)
(***************************************************************************)
\* the entries of field f that data holds for event id eid, in either slot
EntriesOn(data, eid, f) ==
    {t \in EventTypes :
        /\ HasCustom(data, Slot(t))
        /\ EventId(data, t) = eid
        /\ f \in DOMAIN data[Slot(t)].custom}

ValuesOn(data, eid, f) ==
    {data[Slot(t)].custom[f] : t \in EntriesOn(data, eid, f)}

EventIds == {"e1", "e2", "current", "next"}

Enabled(f) == f \in DOMAIN monitoredFields /\ monitoredFields[f].enabled

\* field f carries the one string value v on event id eid in data
Carries(data, eid, f, v) == ValuesOn(data, eid, f) = {v} /\ v.t = "string"

\* the delivery before this one and this one both carry v for f on eid,
\* and no setting changed in between
SameValueAgain(eid, f) ==
    /\ Delivered
    /\ ~cfgChanged
    /\ ttsEnabled
    /\ Enabled(f)
    /\ \E v \in ValuesOn(localData, eid, f) :
          Carries(localData, eid, f, v) /\ Carries(localData', eid, f, v)

\* C3: when two consecutive runtime-data deliveries carry the same raw
\* string value for an enabled monitored field on the same event id, with
\* no configuration change in between, the second delivery does not call
\* speakValue for it and leaves its previousValues entry as it was.
C3_SameValueTwiceIsNoOp ==
    [][\A eid \in EventIds, f \in AllKeys :
          SameValueAgain(eid, f) =>
             /\ \A i \in 1..Len(log'.calls) :
                   log'.calls[i].key # UniqueKey(eid, f)
             /\ UniqueKey(eid, f) \in DOMAIN previousValues
             /\ UniqueKey(eid, f) \in DOMAIN previousValues'
             /\ previousValues'[UniqueKey(eid, f)]
                  = previousValues[UniqueKey(eid, f)]]_vars

\* a delivery has just repeated "00:10" for f1 on event e1 with the
\* threshold at or above 10 and the gate free, and called speakValue for
\* nothing
C3_Witness ==
    /\ log.tag = "runtime-data"
    /\ log.calls = <<>>
    /\ ttsEnabled /\ speechAvailable /\ ~isSpeaking
    /\ Enabled("f1")
    /\ Carries(localData, "e1", "f1", T0010)
    /\ "e1-f1" \in DOMAIN previousValues
    /\ previousValues["e1-f1"] = T0010

\* the timers a delivery's scheduled calls add
Scheduled(calls) ==
    LET sched == SelectSeq(calls, LAMBDA c : c.outcome = "scheduled")
    IN [i \in 1..Len(sched) |->
          [fieldKey |-> sched[i].fieldKey, seconds |-> sched[i].seconds]]

\* the entry of f in slot t of the delivered data differs from the cache
\* and parses to s seconds
ChangesTo(t, f, s) ==
    /\ HasCustom(localData', Slot(t))
    /\ f \in DOMAIN localData'[Slot(t)].custom
    /\ LET v == localData'[Slot(t)].custom[f]
           key == UniqueKey(EventId(localData', t), f)
       IN /\ key \notin DOMAIN previousValues \/ previousValues[key] # v
          /\ s # NoSeconds
          /\ parseTimeToSeconds(v) = s

TriggeredFor(t, f, s) ==
    \E i \in 1..Len(log'.calls) :
       /\ log'.calls[i].key = UniqueKey(EventId(localData', t), f)
       /\ log'.calls[i].seconds = s
       /\ log'.calls[i].outcome = "scheduled"

\* C4: for an enabled monitored field whose value changes to a parseable
\* duration of s seconds while TTS is enabled, the engine is available and
\* the gate is free, a speak timer is scheduled if and only if
\* s <= threshold; the timers added are exactly the triggered ones, and the
\* utterance a timer hands over has the decimal string of s as its text
\* (threshold 10: "00:10" schedules 10 and speaks "10", "00:11" schedules
\* nothing).
C4_ThresholdIsInclusive ==
    [][/\ (Delivered /\ ttsEnabled /\ speechAvailable /\ ~isSpeaking) =>
            \A t \in EventTypes, f \in AllKeys, s \in 0..MaxSeconds :
               (Enabled(f) /\ ChangesTo(t, f, s)) =>
                  (TriggeredFor(t, f, s) <=> s <= monitoredFields[f].threshold)
       /\ Delivered => timers' = timers \o Scheduled(log'.calls)
       /\ (Delivered /\ ttsEnabled /\ speechAvailable /\ ~isSpeaking
             /\ Enabled("f1") /\ monitoredFields["f1"].threshold = 10
             /\ "e1-f1" \notin DOMAIN previousValues) =>
            /\ localData' = NowOnly(Event("e1", F1(T0010))) =>
                  timers' = Append(timers, [fieldKey |-> "f1", seconds |-> 10])
            /\ localData' = NowOnly(Event("e1", F1(T0011))) => timers' = timers
       /\ (timers # <<>> /\ Len(utterances') = Len(utterances) + 1) =>
            /\ Head(timers).seconds = 10 =>
                  utterances'[Len(utterances')].text = <<"1", "0">>
            /\ Head(timers).seconds = 11 =>
                  utterances'[Len(utterances')].text = <<"1", "1">>
            /\ Head(timers).seconds \in {10, 11}]_vars

\* "00:10" arrived for f1 with the threshold at 10 and its timer was
\* scheduled
C4_Witness ==
    /\ Enabled("f1")
    /\ monitoredFields["f1"].threshold = 10
    /\ HasCustom(localData, "eventNow")
    /\ localData["eventNow"].custom = F1(T0010)
    /\ Len(log.calls) = 1
    /\ log.calls[1].outcome = "scheduled"
    /\ log.calls[1].seconds = 10
    /\ timers = <<[fieldKey |-> "f1", seconds |-> 10]>>

(***************************************************************************)
(* Properties of the configuration, the catalog and the connection.        *)
(***************************************************************************)
Restrict(m, keys) == [k \in DOMAIN m \cap keys |-> m[k]]

\* C5: once the field definitions are fetched, the in-memory mapping is the
\* persisted mapping minus the keys absent from the catalog: a configuration
\* saved by an earlier page is restored.
C5_SavedConfigurationRestored ==
    (fetchState = "ok" /\ storage.t = "json") =>
        monitoredFields = Restrict(storage.v, DOMAIN customFields)

\* C6: a connection marked disconnected has a reconnect ahead of it: the
\* 2000 ms timer is pending, or a socket exists whose close will set it (a
\* new attempt under way included).  Only that timer calls connectSocket
\* again, so a state without either never sees another attempt.
C6_DisconnectedReconnects ==
    connStatus = "disconnected" => (reconnectTimers > 0 \/ Len(sockets) > 0)

\* C7: a socket message whose tag is not "runtime-data" changes none of
\* localData, previousValues, monitoredFields, the gate, the timers and the
\* utterances.
C7_OtherTagsHaveNoEffect ==
    [][log'.tag = "ping" =>
          UNCHANGED <<localData, previousValues, monitoredFields, isSpeaking,
                      timers, utterances>>]_vars

\* a "ping" message has just arrived while f1 is monitored, TTS is on and
\* the same payload under "runtime-data" would have been scanned
C7_Witness ==
    /\ log.tag = "ping"
    /\ Enabled("f1")
    /\ ttsEnabled /\ speechAvailable /\ ~isSpeaking
    /\ "eventNow" \notin DOMAIN localData

\* C8: after a failed fetch (non-2xx or network error) a message is shown
\* and populateAddFieldDropdown has run, leaving no option but the
\* placeholder and the add button disabled, as after an empty result.
C8_FailedFetchPopulatesDropdown ==
    fetchState \in {"status", "network"} =>
        /\ dom.container \in {"error-status", "error"}
        /\ dom.populated
        /\ dom.options = {}
        /\ dom.addDisabled

\* C9: after every change of the monitored set the dropdown offers exactly
\* the text fields of the catalog that are not monitored.
C9_DropdownTracksMonitoredSet ==
    [][DOMAIN monitoredFields' # DOMAIN monitoredFields =>
          dom'.options = TextKeys(customFields') \ DOMAIN monitoredFields']_vars

\* C10: every key of monitoredFields is a key of the fetched catalog, also
\* after a load of a saved record that holds other keys.
C10_MonitoredKeysAreCatalogKeys ==
    DOMAIN monitoredFields \subseteq DOMAIN customFields

\* the saved record still holds f2, which the fetched catalog lacks, and
\* its f1 has been loaded into monitoredFields
C10_Witness ==
    /\ storage.t = "json"
    /\ "f2" \in DOMAIN storage.v
    /\ "f2" \notin DOMAIN customFields
    /\ "f1" \in DOMAIN monitoredFields
    /\ "f2" \notin DOMAIN monitoredFields

(***************************************************************************)
(* Persistence.                                                            *)
(***************************************************************************)
\* C11: when a handler that mutates the monitored-field mapping (add,
\* remove, enable, threshold, language, voice) has run and changed it, the
\* record under the configuration key is the whole mapping now in memory.
C11_EveryMutationIsPersisted ==
    [][monitoredFields' # monitoredFields =>
          /\ storage'.t = "json"
          /\ storage'.v = monitoredFields'
          /\ DOMAIN storage'.v = DOMAIN monitoredFields']_vars

\* two fields are monitored, f1 disabled and f2 with a threshold of 5, and
\* the stored record holds both as they are
C11_Witness ==
    /\ DOMAIN monitoredFields = {"f1", "f2"}
    /\ ~monitoredFields["f1"].enabled
    /\ monitoredFields["f2"].threshold = 5
    /\ storage = SavedJson(monitoredFields)

(***************************************************************************)
(* Properties of the parser.  The expected result is computed from the     *)
(* parts the trimmed string has between its colons.                        *)
(***************************************************************************)
RECURSIVE Split(_)
Split(s) ==
    IF \A i \in 1..Len(s) : s[i] # ":" THEN <<s>>
    ELSE LET i == CHOOSE j \in 1..Len(s) :
                     s[j] = ":" /\ \A k \in 1..(j - 1) : s[k] # ":"
         IN <<SubSeq(s, 1, i - 1)>> \o Split(SubSeq(s, i + 1, Len(s)))

IsGroup(d, lens) == Len(d) \in lens /\ \A i \in 1..Len(d) : IsDigit(d[i])

GroupValue(d) ==
    IF Len(d) = 1 THEN DigitVal(d[1])
    ELSE 10 * DigitVal(d[1]) + DigitVal(d[2])

IsHMS(p) ==
    Len(p) = 3 /\ IsGroup(p[1], {1, 2}) /\ IsGroup(p[2], {2})
               /\ IsGroup(p[3], {2})

IsMS(p) == Len(p) = 2 /\ IsGroup(p[1], {1, 2}) /\ IsGroup(p[2], {2})

ExpectedSeconds(v) ==
    IF v.t # "string" THEN NoSeconds
    ELSE LET p == Split(Trim(v.s)) IN
         IF IsHMS(p)
         THEN GroupValue(p[1]) * 3600 + GroupValue(p[2]) * 60 + GroupValue(p[3])
         ELSE IF IsMS(p)
         THEN GroupValue(p[1]) * 60 + GroupValue(p[2])
         ELSE NoSeconds

\* C12: parseTimeToSeconds returns hours*3600 + minutes*60 + seconds for a
\* string that, trimmed, is H:MM:SS or HH:MM:SS, minutes*60 + seconds for
\* M:SS or MM:SS, and null for every other input: the empty string, a value
\* that is not a string, wrong digit counts, other separators.
C12_ParsesBothFormsElseNull ==
    parsed # NotCalled => parsed = ExpectedSeconds(timeStr)

\* "5:07:99" has been parsed to 5*3600 + 7*60 + 99
C12_Witness ==
    /\ timeStr = Str(<<"5", ":", "0", "7", ":", "9", "9">>)
    /\ parsed = 18519

OneNinetyNine == Str(<<"1", ":", "9", "9">>)

\* C20 as stated: "1:99" parses as 99 seconds.
C20_OneNinetyNineIsNinetyNine ==
    (parsed # NotCalled /\ timeStr = OneNinetyNine) => parsed = 99

\* a well-formed string one of whose minutes or seconds groups is above 59
OverSixty(v) ==
    /\ v.t = "string"
    /\ LET p == Split(Trim(v.s)) IN
       /\ IsHMS(p) \/ IsMS(p)
       /\ \E i \in (Len(p) - 1)..Len(p) : GroupValue(p[i]) > 59

\* C20 amended: minutes and seconds above 59 are accepted and counted in
\* full, and "1:99" parses as 1*60 + 99 = 159 seconds.
C20_NoUpperBoundOnDigits ==
    (parsed # NotCalled /\ OverSixty(timeStr)) =>
        /\ parsed # NoSeconds
        /\ parsed >= 99
        /\ timeStr = OneNinetyNine => parsed = 159

\* "1:99" has been parsed
C20_Witness == timeStr = OneNinetyNine /\ parsed = 159

(***************************************************************************)
(* Properties of the toggle, the gate's release and the triggers.          *)
(***************************************************************************)
\* C13: when the change handler of the TTS toggle has run with the toggle
\* unchecked, speechSynthesis.cancel() has taken every utterance off the
\* engine and isSpeaking is false.
C13_UncheckingCancelsAndReleases ==
    [][(ttsEnabled /\ ~ttsEnabled') =>
          /\ ~isSpeaking'
          /\ utterances' = EngineCancel(utterances)
          /\ ~EngineBusy(utterances')]_vars

\* the toggle is unchecked, the utterance that held the gate is cancelled
\* and has not reported yet, and the gate is free
C13_Witness ==
    /\ ~ttsEnabled
    /\ ~isSpeaking
    /\ Len(utterances) = 1
    /\ utterances[1].cancelled
    /\ timers = <<>>

\* no call of speakValue in the log l has cache key k
NoCallFor(l, k) == \A i \in 1..Len(l.calls) : l.calls[i].key # k

\* C14: a trigger dropped because the gate was held is not announced
\* later.  The delivery that drops it sets no timer and hands nothing to
\* the engine; while every later delivery shows the same value for that
\* event and field, none of them calls speakValue for it, whatever the gate
\* does meanwhile; and only a delivery sets a timer, only a timer hands an
\* utterance over.
C14_DroppedTriggerStaysSilent ==
    [][/\ \A d \in dropped :
             ValuesFor(localData', d.key) \subseteq {d.value} =>
                NoCallFor(log', d.key)
       /\ dropped' \ dropped # {} =>
             timers' = timers /\ utterances' = utterances
       /\ ~Delivered => Len(timers') <= Len(timers)
       /\ Len(utterances') > Len(utterances) =>
             /\ timers # <<>> /\ timers' = Tail(timers)
             /\ utterances' = Append(utterances,
                    [text |-> NatToString(Head(timers).seconds),
                     cancelled |-> FALSE])]_vars

\* "00:10" of f1 on event e1 was dropped; the gate is free again, nothing
\* is pending, and a delivery has just shown "00:10" again without a call
\* of speakValue
C14_Witness ==
    /\ [key |-> "e1-f1", value |-> T0010] \in dropped
    /\ log.tag = "runtime-data"
    /\ log.calls = <<>>
    /\ ValuesFor(localData, "e1-f1") = {T0010}
    /\ ttsEnabled /\ speechAvailable /\ ~isSpeaking
    /\ timers = <<>>
    /\ utterances = <<>>

\* C15: every acquisition of the gate is followed by its release, given an
\* engine that reports end or error for each utterance handed to it; a
\* speak that throws releases the gate inside the timer callback.
C15_GateIsReleased == isSpeaking ~> ~isSpeaking

\* a timer has just handed its utterance over and holds the gate
C15_Witness ==
    /\ isSpeaking
    /\ log.timer.outcome = "spoken"
    /\ Len(utterances) = 1
    /\ ~utterances[1].cancelled

\* the timer that fires in this step was set while another was pending
LaterTimerFires == timers # <<>> /\ timers' = Tail(timers) /\ Head(late)

\* C16 as stated: of two triggers issued while the gate is free and before
\* either delay has elapsed, the later one finds the gate held when its
\* timer fires and produces no utterance.
C16_LaterTriggerIsDropped ==
    [][LaterTimerFires => (isSpeaking /\ utterances' = utterances)]_vars

\* C16 amended: the later trigger is dropped when the gate is held as its
\* timer fires; when the gate is free by then it takes the gate and hands
\* over its own utterance, or leaves the gate free when speak throws.
C16_LaterTriggerDroppedWhileGateHeld ==
    [][LaterTimerFires =>
          IF isSpeaking
          THEN utterances' = utterances /\ isSpeaking'
          ELSE \/ /\ isSpeaking'
                  /\ utterances' = Append(utterances,
                         [text |-> NatToString(Head(timers).seconds),
                          cancelled |-> FALSE])
               \/ ~isSpeaking' /\ utterances' = utterances]_vars

\* the later of two timers has just fired with the gate held by the
\* earlier one's utterance, and was dropped
C16_Witness ==
    /\ log.timer.late
    /\ log.timer.outcome = "dropped"
    /\ isSpeaking
    /\ Len(utterances) = 1
    /\ ~utterances[1].cancelled
    /\ timers = <<>>

(***************************************************************************)
(* Properties of the previous-value cache.                                 *)
(***************************************************************************)
\* the cache key of field f of the event in slot t: the event's id, or the
\* role token when it has none, then "-" and the field key
KeyOf(data, t, f) ==
    IF data[Slot(t)].id # "" THEN data[Slot(t)].id \o "-" \o f
    ELSE t \o "-" \o f

\* data holds an entry of f in slot t
HasEntry(data, t, f) ==
    HasCustom(data, Slot(t)) /\ f \in DOMAIN data[Slot(t)].custom

\* C17: after a scan, the cache holds under "<eventId>-<fieldKey>" the raw
\* value the scan saw for every enabled monitored field, whatever the
\* value is (null, unparsable, above the threshold) and whatever became of
\* the speech (scheduled or dropped); the event id is the event's id, or
\* "current" / "next" when it has none.  When both slots give one key, the
\* value of eventNext, scanned last, stays.
C17_CacheHoldsTheValueSeen ==
    [][(Delivered /\ ttsEnabled) =>
          \A t \in EventTypes, f \in AllKeys :
             (Enabled(f) /\ HasEntry(localData', t, f)) =>
                /\ KeyOf(localData', t, f) \in DOMAIN previousValues'
                /\ (t = "next"
                      \/ ~HasEntry(localData', "next", f)
                      \/ KeyOf(localData', "next", f) # KeyOf(localData', t, f))
                     => previousValues'[KeyOf(localData', t, f)]
                           = localData'[Slot(t)].custom[f]]_vars

\* scans have cached null for f1 of event e1, and "00:10" under
\* "current-f1" for an event without id whose trigger the held gate dropped
C17_Witness ==
    /\ log.tag = "runtime-data"
    /\ Len(log.calls) = 1
    /\ log.calls[1].outcome = "busy"
    /\ log.calls[1].key = "current-f1"
    /\ "current-f1" \in DOMAIN previousValues
    /\ previousValues["current-f1"] = T0010
    /\ "e1-f1" \in DOMAIN previousValues
    /\ previousValues["e1-f1"] = JsNull

C19_ThresholdIsWhatTheUserSet ==
    [][/\ \A k \in AllKeys, n \in 0..MaxSeconds :
             SetThreshold(k, NatToString(n)) =>
                monitoredFields'[k].threshold = n
       /\ \A k \in DOMAIN monitoredFields' :
             monitoredFields'[k].threshold >= 0]_vars

(***************************************************************************)
(* Properties of the toggle while unchecked, of the gate's holder and of   *)
(* the reconnection.                                                       *)
(***************************************************************************)
\* C22: while the TTS toggle is unchecked no utterance is handed to the
\* speech engine and isSpeaking is not set: not by a delivery, not by a
\* timer speakValue set before the toggle was unchecked.
C22_NoSpeechWhileToggleOff ==
    [][(~ttsEnabled /\ ~ttsEnabled') =>
          /\ Len(utterances') <= Len(utterances)
          /\ isSpeaking' => isSpeaking]_vars

\* the utterances left when utterance i has reported
Without(utts, i) ==
    [j \in 1..(Len(utts) - 1) |-> IF j < i THEN utts[j] ELSE utts[j + 1]]

\* C23: the gate is released only on behalf of the utterance that holds
\* it, the one handed over last: when an end or error report clears
\* isSpeaking, the utterance that reported is that one, not an earlier one
\* that was cancelled.
C23_OnlyTheHolderReleasesTheGate ==
    [][(isSpeaking /\ ~isSpeaking' /\ Len(utterances') = Len(utterances) - 1)
          => utterances' = Without(utterances, Len(utterances))]_vars

\* the sockets that are connecting or open
LiveSockets == {i \in 1..Len(sockets) : sockets[i] \in {"connecting", "open"}}

\* C24: the sockets that are connecting or open and the pending reconnect
\* timers number at most one together.
C24_AtMostOneConnection == Cardinality(LiveSockets) + reconnectTimers <= 1

\* a socket has closed, its reconnect timer has fired and the one new
\* socket is connecting
C24_Witness ==
    /\ connStatus = "disconnected"
    /\ sockets = <<"connecting">>
    /\ reconnectTimers = 0

(***************************************************************************)
(* Properties of the monitoring summary.                                   *)
(***************************************************************************)
\* a step whose handler ends with updateMonitoringDisplay: a delivery
\* scanned with the toggle checked, an add, a remove, a change of a row's
\* Enabled checkbox
Rendered ==
    \/ Delivered /\ ttsEnabled
    \/ DOMAIN monitoredFields' # DOMAIN monitoredFields
    \/ \E k \in DOMAIN monitoredFields \cap DOMAIN monitoredFields' :
          monitoredFields'[k].enabled # monitoredFields[k].enabled

\* the raw value the summary shows for field k: that of eventNow, or that
\* of eventNext when eventNow has none, or '-'
ShownValue(data, k) ==
    LET Has(slot) == /\ HasCustom(data, slot)
                     /\ k \in DOMAIN data[slot].custom
                     /\ Truthy(data[slot].custom[k])
    IN IF Has("eventNow") THEN data["eventNow"].custom[k]
       ELSE IF Has("eventNext") THEN data["eventNext"].custom[k]
       ELSE Dash

\* C21: in the summary updateMonitoringDisplay renders, the item of an
\* enabled field shows the raw value of eventNow, or of eventNext when
\* eventNow has none, and is marked active if and only if that value
\* parses to a duration at or under the field's threshold.
C21_ActiveIffShownValueAtOrUnderThreshold ==
    [][Rendered =>
          \A k \in DOMAIN dom'.monitoring.items :
             LET item == dom'.monitoring.items[k]
                 seconds == parseTimeToSeconds(item.value)
             IN /\ item.value = ShownValue(localData', k)
                /\ item.active <=>
                      (seconds # NoSeconds
                         /\ seconds <= monitoredFields'[k].threshold)]_vars

====
